---- MODULE Spec2Model ----
(***************************************************************************)
(* diamond-score: the score aggregator (buildScores), its per-source       *)
(* health tracker and stale-data fallback, and the health classifier.      *)
(***************************************************************************)
EXTENDS Integers, Sequences, FiniteSets, TLC

(* ------------------------------------------------------------------ *)
(* Bounds of the model                                                 *)
(* ------------------------------------------------------------------ *)
\* passes of buildScores started in one run of Spec
MaxPasses == 3
\* failed fetches in one run of Spec
MaxFailures == 2
\* passes of buildScores started in one run of OutageSpec
MaxOutagePasses == 1
\* failed fetches recorded in one run of HealthSpec
MaxFails == 5
\* largest `retries` option given to withRetry in RetrySpec
MaxRetries == 3
\* calls of throttle in one run of ThrottleSpec
MaxCalls == 3
\* steps of the clock in one run of ThrottleSpec
MaxTicks == 6
\* rebuilds started by the timer of one live-stream connection in StreamSpec
MaxStreamTicks == 2
\* reconnect timers that expire in one run of ClientSpec
MaxExpiries == 6
\* reconnect timers pending whose handle was overwritten, in ClientSpec
MaxStrayTimers == 2
\* fetches of /api/scores started by one polling effect in PollSpec
MaxPolls == 3
\* requests answered by GET /api/scores in ScoresRouteSpec
MaxRequests == 3

(* ------------------------------------------------------------------ *)
(* Values                                                              *)
(* ------------------------------------------------------------------ *)
\* the order of the Promise.all array
Sources == <<"mlb", "milb", "ncaa", "npb", "kbo", "wbc">>

SourceSet == {Sources[i] : i \in 1..Len(Sources)}

\* the date argument of buildScores
Dates == {"d1", "d2"}

\* null of lastSuccessAt / lastErrorAt, and the value Date.now() returns
NoTime == 0

DateNow == 1

\* null of lastError, and an unset LeagueGroup.error
NoError == ""

ErrUnavailable == "Data temporarily unavailable"

ErrDelayed == "Data may be delayed"

\* a slot of the Promise.all array whose fetch has not settled
Pending == [st |-> "pending"]

Failed == [st |-> "failed"]

Ok(v) == [st |-> "ok", value |-> v]

Game(i, s) == [id |-> i, status |-> s]

(* ------------------------------------------------------------------ *)
(* Responses of the source adapters (inputs)                           *)
(* ------------------------------------------------------------------ *)
\* the sources whose failure is shown as an error card
ErrorCardSources == {"mlb", "npb", "kbo", "ncaa"}

LeagueId(s) ==
  CASE s = "mlb" -> 1
    [] s = "npb" -> 2
    [] s = "kbo" -> 3
    [] s = "ncaa" -> 16
    [] s = "wbc" -> 20
    [] OTHER -> 0

\* MILB_LEVELS: sportId and label
MILB_LEVELS == <<[sportId |-> 11, label |-> "Triple-A"],
                 [sportId |-> 12, label |-> "Double-A"],
                 [sportId |-> 13, label |-> "High-A"],
                 [sportId |-> 14, label |-> "Single-A"]>>

\* what the adapter of source s may resolve with for date d: "d1" is a day
\* with games in every league, "d2" a day on which most leagues are idle
Responses(s, d) ==
  IF d = "d1"
    THEN CASE s = "mlb" -> {<<Game(101, "live")>>}
           [] s = "milb" -> {<<[level |-> MILB_LEVELS[1], games |-> <<Game(1101, "final")>>],
                              [level |-> MILB_LEVELS[3], games |-> <<Game(1301, "scheduled")>>]>>}
           [] s = "ncaa" -> {<<Game(1601, "final"), Game(1602, "scheduled")>>}
           [] s = "npb" -> {<<Game(201, "final")>>}
           [] s = "kbo" -> {<<Game(301, "live")>>}
           [] OTHER -> {<<Game(2001, "scheduled")>>}
    ELSE CASE s = "ncaa" -> {<<Game(1611, "live")>>}
           [] s = "kbo" -> {<<Game(311, "final")>>}
           [] OTHER -> {<<>>}

(* ------------------------------------------------------------------ *)
(* Per-source health tracking                                          *)
(* ------------------------------------------------------------------ *)
initialHealth ==
  [lastSuccessAt |-> NoTime, lastErrorAt |-> NoTime,
   lastError |-> NoError, consecutiveFails |-> 0]

recordSuccess(h) ==
  [h EXCEPT !.lastSuccessAt = DateNow, !.consecutiveFails = 0, !.lastError = NoError]

\* recordFailure that marks the source as failing without counting
recordFailureFlag(h) ==
  [h EXCEPT !.lastErrorAt = DateNow, !.lastError = "Error", !.consecutiveFails = 1]

recordFailure(h) ==
  [h EXCEPT !.lastErrorAt = DateNow, !.lastError = "Error", !.consecutiveFails = @ + 1]

(* ------------------------------------------------------------------ *)
(* buildScores: the synchronous part after Promise.all                 *)
(* ------------------------------------------------------------------ *)
LeagueGroup(id, name, games, collapsed, top25, error) ==
  [id |-> id, name |-> name, games |-> games, defaultCollapsed |-> collapsed,
   showTop25Filter |-> top25, error |-> error, stale |-> FALSE]

\* CardGroup with a failed fetch left out of the leagues
CardGroupSilent(r, id, name, okCollapsed, errCollapsed, top25) ==
  IF r.st = "ok" /\ Len(r.value) > 0
    THEN <<LeagueGroup(id, name, r.value, okCollapsed, top25, NoError)>>
    ELSE <<>>

\* a source shown with an error card when its fetch failed
CardGroup(r, id, name, okCollapsed, errCollapsed, top25) ==
  IF r.st = "ok"
    THEN (IF Len(r.value) > 0
            THEN <<LeagueGroup(id, name, r.value, okCollapsed, top25, NoError)>>
            ELSE <<>>)
    ELSE <<LeagueGroup(id, name, <<>>, errCollapsed, top25, ErrUnavailable)>>

MlbGroup(r) == CardGroup(r, 1, "MLB", TRUE, FALSE, FALSE)

MilbGroups(r) ==
  IF r.st = "ok"
    THEN [i \in 1..Len(r.value) |->
            LeagueGroup(r.value[i].level.sportId, r.value[i].level.label,
                        r.value[i].games, TRUE, FALSE, NoError)]
    ELSE <<>>

NpbGroup(r) == CardGroup(r, 2, "NPB", FALSE, FALSE, FALSE)

KboGroup(r) == CardGroup(r, 3, "KBO", FALSE, FALSE, FALSE)

NcaaGroup(r) == CardGroup(r, 16, "College Baseball", TRUE, TRUE, TRUE)

WbcGroup(r) ==
  IF r.st = "ok" /\ Len(r.value) > 0
    THEN <<LeagueGroup(20, "World Baseball Classic", r.value, FALSE, FALSE, NoError)>>
    ELSE <<>>

\* PushedLeagues with the College Baseball block ahead of the KBO block
PushedLeaguesNcaaFirst(res) ==
  MlbGroup(res["mlb"]) \o MilbGroups(res["milb"]) \o NpbGroup(res["npb"])
    \o NcaaGroup(res["ncaa"]) \o KboGroup(res["kbo"]) \o WbcGroup(res["wbc"])

\* the leagues pushed by buildScores, before the stale fallback
PushedLeagues(res) ==
  MlbGroup(res["mlb"]) \o MilbGroups(res["milb"]) \o NpbGroup(res["npb"])
    \o KboGroup(res["kbo"]) \o NcaaGroup(res["ncaa"]) \o WbcGroup(res["wbc"])

\* prevLeagues.find((l) => l.id === id): the first match, or no match
FindIndex(prev, id) ==
  IF \E i \in 1..Len(prev) : prev[i].id = id
    THEN CHOOSE i \in 1..Len(prev) :
           prev[i].id = id /\ \A j \in 1..(i - 1) : prev[j].id # id
    ELSE 0

\* StaleSubstitute that keeps the error text of the failed fetch
StaleSubstituteKeepError(league, prev) ==
  IF league.error # NoError /\ FindIndex(prev, league.id) # 0
       /\ Len(prev[FindIndex(prev, league.id)].games) > 0
    THEN [league EXCEPT !.games = prev[FindIndex(prev, league.id)].games,
                        !.stale = TRUE]
    ELSE league

StaleSubstitute(league, prev) ==
  IF league.error # NoError /\ FindIndex(prev, league.id) # 0
       /\ Len(prev[FindIndex(prev, league.id)].games) > 0
    THEN [league EXCEPT !.games = prev[FindIndex(prev, league.id)].games,
                        !.stale = TRUE, !.error = ErrDelayed]
    ELSE league

\* entry: the staleLeagues Map entry of the date
StaleFallback(leagues, entry) ==
  IF entry.has
    THEN [i \in 1..Len(leagues) |-> StaleSubstitute(leagues[i], entry.leagues)]
    ELSE leagues

\* hasAnySuccess that counts the MiLB and WBC fetches too
hasAnySuccessOfSix(res) == \E s \in SourceSet : res[s].st = "ok"

hasAnySuccess(res) ==
  res["mlb"].st = "ok" \/ res["npb"].st = "ok" \/ res["kbo"].st = "ok"
    \/ res["ncaa"].st = "ok"

\* NoErrorLeagues without the filter
AllLeagues(leagues) == leagues

\* leagues.filter((l) => !l.error)
NoErrorLeagues(leagues) == SelectSeq(leagues, LAMBDA l : l.error = NoError)

\* HasLive that looks at the freshly fetched leagues only
HasLiveFresh(leagues) ==
  \E i \in 1..Len(leagues) :
    /\ ~leagues[i].stale
    /\ \E j \in 1..Len(leagues[i].games) : leagues[i].games[j].status = "live"

HasLive(leagues) ==
  \E i \in 1..Len(leagues) :
    \E j \in 1..Len(leagues[i].games) : leagues[i].games[j].status = "live"

\* the ScoresResult a pass returns
ScoresResult(date, res, entry) ==
  [date |-> date,
   leagues |-> StaleFallback(PushedLeagues(res), entry),
   hasLive |-> HasLive(StaleFallback(PushedLeagues(res), entry))]

NoEntry == [has |-> FALSE, leagues |-> <<>>]

StaleAfter(res, leagues, entry) ==
  IF hasAnySuccess(res)
    THEN [has |-> TRUE, leagues |-> NoErrorLeagues(leagues)]
    ELSE entry

(* ------------------------------------------------------------------ *)
(* State                                                               *)
(* ------------------------------------------------------------------ *)
\* sourceHealth, staleLeagues: the module-level state of buildScores
\* pass: the activation of buildScores in flight (its Promise.all array)
\* lastDone: per date, the last pass that returned: its Promise.all
\*   array, the result it returned, and whether it left the stale entry of
\*   the date as it found it
\* started, failures: passes started and fetches failed so far
\* failsSince: per source, failures settled since its last success
\* libPass, libDone: the activation of the buildScores of lib/buildScores.ts
\* in flight, and how its last activation settled
\* retry: one activation of withRetry: its options, its loop counter and
\*   lastErr, where it stands, and what fn and the timers did so far
\* now: Date.now()
\* lastRequestAt: the module-level map of throttle (an absent key reads 0)
\* calls: the calls of throttle so far, in the order they were made
\* conn: one live-stream connection: the locals of start(controller), the
\*   abort signal, the controller, and the calls of send so far
\* client: the SSE path of one useLiveStream effect: its locals, the
\*   EventSources it created and the reconnect timers it armed
\* poller: the polling fallback of one useLiveStream effect
\* scoresReq: one request of GET /api/scores
VARIABLES sourceHealth, staleLeagues, pass, lastDone, started, failures, failsSince,
          libPass, libDone, retry, now, lastRequestAt, calls, conn,
          client, poller, scoresReq

vars == <<sourceHealth, staleLeagues, pass, lastDone, started, failures, failsSince,
          libPass, libDone, retry, now, lastRequestAt, calls, conn,
          client, poller, scoresReq>>

aggVars == <<sourceHealth, staleLeagues, pass, lastDone, failures, failsSince>>

libVars == <<libPass, libDone>>

retryVars == <<retry>>

throttleVars == <<now, lastRequestAt, calls>>

streamVars == <<conn>>

\* the state of the browser side and of the scores route
clientVars == <<client, poller, scoresReq>>

\* the state outside buildScores and its health tracker
restVars == <<retryVars, throttleVars, streamVars, clientVars>>

\* the state of the two buildScores
coreVars == <<aggVars, started, libVars>>

\* DOMAIN_MIN_INTERVAL_MS
DOMAIN_MIN_INTERVAL_MS ==
  [h \in {"www.koreabaseball.com", "npb.jp", "statsapi.mlb.com", "site.api.espn.com"} |->
     CASE h = "www.koreabaseball.com" -> 500
       [] h = "npb.jp" -> 1000
       [] h = "statsapi.mlb.com" -> 100
       [] h = "site.api.espn.com" -> 100]

Hosts == DOMAIN DOMAIN_MIN_INTERVAL_MS

\* the clock of the process when the model starts: later than any interval
\* after the epoch, as Date.now() is
StartTime == 1000

\* useLiveStream before its effect runs on the SSE path
ClientIdle ==
  [mounted |-> "no", hidden |-> FALSE, listening |-> FALSE, destroyed |-> FALSE,
   es |-> "null", orphans |-> 0, reconnectTimer |-> "undefined", strayTimers |-> 0,
   reconnectDelay |-> 2000, expiries |-> 0, sinceReset |-> 0,
   armedDelay |-> 0, armedSince |-> 0, sinceHidden |-> FALSE, lateCreated |-> 0]

\* useLiveStream before its effect runs on the polling path
PollerIdle ==
  [st |-> "idle", cancelled |-> FALSE, timer |-> FALSE, interval |-> 0, polls |-> 0,
   lastOk |-> FALSE, lateInits |-> 0, lateTimers |-> 0, armedAt |-> 0,
   data |-> [leagues |-> <<>>, hasLive |-> FALSE], fetched |-> [leagues |-> <<>>, hasLive |-> FALSE]]

\* no request of GET /api/scores yet
ReqIdle ==
  [st |-> "idle", param |-> [present |-> FALSE, value |-> <<>>], date |-> <<>>,
   status |-> 0, body |-> "none", result |-> [leagues |-> <<>>, hasLive |-> FALSE],
   served |-> 0]

\* the connection before GET: no result, no snapshot, no timer, no listener
ConnIdle ==
  [st |-> "idle", aborted |-> FALSE, listener |-> FALSE, closed |-> FALSE,
   scores |-> [leagues |-> <<>>, hasLive |-> FALSE], loaded |-> [leagues |-> <<>>, hasLive |-> FALSE],
   snapshots |-> <<>>, timer |-> FALSE, interval |-> 0, armedAt |-> 0,
   out |-> <<>>, builds |-> 0, ticks |-> 0, lastTick |-> "none",
   buildsAtAbort |-> 0, lateTimers |-> 0]

\* withRetry has not been called
RetryIdle ==
  [st |-> "idle", retries |-> 0, baseDelayMs |-> 0, attempt |-> 0,
   lastErr |-> "undefined", calls |-> 0, errs |-> <<>>, waits |-> <<>>,
   fnValue |-> "", value |-> "", thrown |-> ""]

IdlePass == [st |-> "idle", date |-> "", res |-> [s \in SourceSet |-> Pending]]

NoDone == [has |-> FALSE]

Init ==
  /\ sourceHealth = [s \in SourceSet |-> initialHealth]
  /\ staleLeagues = [d \in Dates |-> NoEntry]
  /\ pass = IdlePass
  /\ lastDone = [d \in Dates |-> NoDone]
  /\ started = 0
  /\ failures = 0
  /\ failsSince = [s \in SourceSet |-> 0]
  /\ libPass = IdlePass
  /\ libDone = NoDone
  /\ retry = RetryIdle
  /\ now = StartTime
  /\ lastRequestAt = [h \in Hosts |-> 0]
  /\ calls = <<>>
  /\ conn = ConnIdle
  /\ client = ClientIdle
  /\ poller = PollerIdle
  /\ scoresReq = ReqIdle

(* ------------------------------------------------------------------ *)
(* classify of the health route                                        *)
(* ------------------------------------------------------------------ *)
\* classify that needs more than three failures in a row for 'down'
classifyLenient(source) ==
  IF source \notin DOMAIN sourceHealth THEN "unknown"
  ELSE IF sourceHealth[source].lastSuccessAt = NoTime
    THEN (IF sourceHealth[source].consecutiveFails > 0 THEN "down" ELSE "unknown")
  ELSE IF sourceHealth[source].consecutiveFails > 3 THEN "down"
  ELSE IF sourceHealth[source].consecutiveFails > 0 THEN "degraded"
  ELSE "healthy"

classify(source) ==
  IF source \notin DOMAIN sourceHealth THEN "unknown"
  ELSE IF sourceHealth[source].lastSuccessAt = NoTime
    THEN (IF sourceHealth[source].consecutiveFails > 0 THEN "down" ELSE "unknown")
  ELSE IF sourceHealth[source].consecutiveFails >= 3 THEN "down"
  ELSE IF sourceHealth[source].consecutiveFails > 0 THEN "degraded"
  ELSE "healthy"

(* ------------------------------------------------------------------ *)
(* fetchSource: the continuation after `await fn()`                    *)
(* ------------------------------------------------------------------ *)
\* try branch: recordSuccess(source); return { ok: true, value }
fetchSourceOk(s) ==
  /\ sourceHealth' = [sourceHealth EXCEPT ![s] = recordSuccess(@)]
  /\ failsSince' = [failsSince EXCEPT ![s] = 0]

\* catch branch: recordFailure(source, err); return { ok: false }
fetchSourceFail(s) ==
  /\ sourceHealth' = [sourceHealth EXCEPT ![s] = recordFailure(@)]
  /\ failsSince' = [failsSince EXCEPT ![s] = @ + 1]

(* ------------------------------------------------------------------ *)
(* buildScores                                                         *)
(* ------------------------------------------------------------------ *)
\* buildScores(date) is called: the six fetches are issued
StartPass(d) ==
  /\ pass.st = "idle"
  /\ started' = started + 1
  /\ pass' = [IdlePass EXCEPT !.st = "fetching", !.date = d]
  /\ UNCHANGED <<sourceHealth, staleLeagues, lastDone, failures, failsSince, libVars, restVars>>

\* the fetch of source s resolves with v
FetchResolve(s, v) ==
  /\ pass.st = "fetching"
  /\ pass.res[s] = Pending
  /\ fetchSourceOk(s)
  /\ pass' = [pass EXCEPT !.res[s] = Ok(v)]
  /\ UNCHANGED <<staleLeagues, lastDone, started, failures, libVars, restVars>>

\* the fetch of source s throws
FetchReject(s) ==
  /\ pass.st = "fetching"
  /\ pass.res[s] = Pending
  /\ fetchSourceFail(s)
  /\ pass' = [pass EXCEPT !.res[s] = Failed]
  /\ UNCHANGED <<staleLeagues, lastDone, started, libVars, restVars>>

AllSettled ==
  /\ pass.st = "fetching"
  /\ \A s \in SourceSet : pass.res[s] # Pending

\* Promise.all has resolved: build the leagues, apply the stale fallback,
\* write the stale store, compute hasLive and return
Finish ==
  /\ AllSettled
  /\ LET date == pass.date
         result == ScoresResult(date, pass.res, staleLeagues[date])
     IN /\ staleLeagues' = [staleLeagues EXCEPT
                              ![date] = StaleAfter(pass.res, result.leagues, @)]
        /\ lastDone' = [lastDone EXCEPT
                          ![date] = [has |-> TRUE, res |-> pass.res,
                                     keptStale |->
                                       StaleAfter(pass.res, result.leagues, staleLeagues[date])
                                         = staleLeagues[date],
                                     settled |-> "resolved", result |-> result]]
  /\ pass' = IdlePass
  /\ UNCHANGED <<sourceHealth, started, failures, failsSince, libVars, restVars>>

\* passes run back to back, for either date, with a budget of failed fetches
Next ==
  \/ \E d \in Dates : started < MaxPasses /\ StartPass(d)
  \/ \E s \in SourceSet : \E v \in Responses(s, pass.date) : FetchResolve(s, v)
  \/ \E s \in SourceSet :
       failures < MaxFailures /\ FetchReject(s) /\ failures' = failures + 1
  \/ Finish

Spec == Init /\ [][Next]_vars

\* passes for one date in which any subset of the sources may fail
OutageNext ==
  \/ started < MaxOutagePasses /\ StartPass("d1")
  \/ \E s \in SourceSet : \E v \in Responses(s, pass.date) : FetchResolve(s, v)
  \/ \E s \in SourceSet : FetchReject(s) /\ UNCHANGED failures
  \/ Finish

OutageSpec == Init /\ [][OutageNext]_vars

(* ------------------------------------------------------------------ *)
(* The health tracker under overlapping passes                         *)
(* ------------------------------------------------------------------ *)
\* the fetchSource continuations of any number of overlapping passes run
\* one at a time, in any order
HealthNext ==
  \/ \E s \in SourceSet :
       fetchSourceOk(s) /\ UNCHANGED <<staleLeagues, pass, lastDone, started, failures, libVars, restVars>>
  \/ \E s \in SourceSet :
       /\ failures < MaxFails
       /\ failures' = failures + 1
       /\ fetchSourceFail(s)
       /\ UNCHANGED <<staleLeagues, pass, lastDone, started, libVars, restVars>>

HealthSpec == Init /\ [][HealthNext]_vars

(* ------------------------------------------------------------------ *)
(* buildScores of lib/buildScores.ts (five sources, no health tracking) *)
(* ------------------------------------------------------------------ *)
LibSources == {"mlb", "milb", "ncaa", "npb", "kbo"}

\* if (games.length > 0) leagues.push(...)
LibGroup(r, id, name, collapsed, top25) ==
  IF Len(r.value) > 0
    THEN <<LeagueGroup(id, name, r.value, collapsed, top25, NoError)>>
    ELSE <<>>

LibLeagues(res) ==
  LibGroup(res["mlb"], 1, "MLB", TRUE, FALSE) \o MilbGroups(res["milb"])
    \o LibGroup(res["npb"], 2, "NPB", FALSE, FALSE)
    \o LibGroup(res["kbo"], 3, "KBO", FALSE, FALSE)
    \o LibGroup(res["ncaa"], 16, "College Baseball", TRUE, TRUE)

LibStart(d) ==
  /\ libPass.st = "idle"
  /\ started' = started + 1
  /\ libPass' = [IdlePass EXCEPT !.st = "fetching", !.date = d]
  /\ UNCHANGED <<restVars, aggVars, libDone>>

LibResolve(s, v) ==
  /\ libPass.st = "fetching"
  /\ libPass.res[s] = Pending
  /\ libPass' = [libPass EXCEPT !.res[s] = Ok(v)]
  /\ UNCHANGED <<restVars, aggVars, started, libDone>>

\* a fetch throws: .catch(() => []) turns it into an empty list, except for
\* getMLBGames, which has no catch: Promise.all and buildScores reject
LibReject(s) ==
  /\ libPass.st = "fetching"
  /\ libPass.res[s] = Pending
  /\ IF s = "mlb"
       THEN /\ libPass' = IdlePass
            /\ libDone' = [has |-> TRUE, settled |-> "rejected"]
       ELSE /\ libPass' = [libPass EXCEPT !.res[s] = Ok(<<>>)]
            /\ UNCHANGED libDone
  /\ UNCHANGED <<restVars, aggVars, started>>

LibFinish ==
  /\ libPass.st = "fetching"
  /\ \A s \in LibSources : libPass.res[s] # Pending
  /\ libDone' = [has |-> TRUE, settled |-> "resolved",
                 result |-> [date |-> libPass.date,
                             leagues |-> LibLeagues(libPass.res),
                             hasLive |-> HasLive(LibLeagues(libPass.res))]]
  /\ libPass' = IdlePass
  /\ UNCHANGED <<restVars, aggVars, started>>

LibNext ==
  \/ \E d \in Dates : started < MaxPasses /\ LibStart(d)
  \/ \E s \in LibSources : \E v \in Responses(s, libPass.date) : LibResolve(s, v)
  \/ \E s \in LibSources : LibReject(s)
  \/ LibFinish

LibSpec == Init /\ [][LibNext]_vars

(* ------------------------------------------------------------------ *)
(* Vocabulary of the properties                                        *)
(* ------------------------------------------------------------------ *)
\* a step in which the pass in flight returns
Returns == AllSettled /\ pass'.st = "idle"

\* in such a step, the leagues of the result it returns
Returned == lastDone'[pass.date].result.leagues

\* the leagues of the result returned by the last pass for date d
LastLeagues(d) == lastDone[d].result.leagues

\* the league ids a source contributes
IdsOf(s) == IF s = "milb" THEN {11, 12, 13, 14} ELSE {LeagueId(s)}

\* the groups of source s in a list of leagues
GroupsOf(leagues, s) == {i \in 1..Len(leagues) : leagues[i].id \in IdsOf(s)}

\* the stale leagues hold games for source s
StaleHasGames(leagues, s) ==
  \E i \in GroupsOf(leagues, s) : Len(leagues[i].games) > 0

\* source s shows as an error card without games
ErrorCard(leagues, s) ==
  /\ GroupsOf(leagues, s) # {}
  /\ \A i \in GroupsOf(leagues, s) :
       leagues[i].error # NoError /\ leagues[i].games = <<>>

\* source s, which resolved with a non-empty value, shows populated normally
Populated(leagues, s, value) ==
  IF s = "milb"
    THEN \A k \in 1..Len(value) :
           \E i \in 1..Len(leagues) :
             /\ leagues[i].id = value[k].level.sportId
             /\ leagues[i].games = value[k].games
             /\ leagues[i].error = NoError /\ ~leagues[i].stale
    ELSE \E i \in 1..Len(leagues) :
           /\ leagues[i].id = LeagueId(s)
           /\ leagues[i].games = value
           /\ leagues[i].error = NoError /\ ~leagues[i].stale

(* ------------------------------------------------------------------ *)
(* C1                                                                  *)
(* ------------------------------------------------------------------ *)
\* C1: buildScores(date) always resolves with a ScoresResult and never
\* rejects, whichever of the source fetches throw.
C1_NeverRejects ==
  /\ \A d \in Dates : lastDone[d].has => lastDone[d].settled = "resolved"
  /\ libDone.has => libDone.settled = "resolved"

(* ------------------------------------------------------------------ *)
(* C2                                                                  *)
(* ------------------------------------------------------------------ *)
\* C2 as claimed: in a pass, every source whose fetch failed and that has no
\* stale games for the date appears as a league group with error set and no
\* games, and every source that resolved with games appears populated.
C2_EveryFailedSourceShown ==
  [][Returns =>
       \A s \in SourceSet :
         /\ (pass.res[s] = Failed /\ ~StaleHasGames(staleLeagues[pass.date].leagues, s))
              => ErrorCard(Returned, s)
         /\ (pass.res[s].st = "ok" /\ Len(pass.res[s].value) > 0)
              => Populated(Returned, s, pass.res[s].value)]_vars

\* C2 amended: in a pass, every source among MLB, NPB, KBO and College
\* Baseball whose fetch failed and that has no stale games for the date
\* appears as a league group with error set and no games, a failed MiLB or
\* WBC fetch contributes no league group, and every source that resolved
\* with games appears populated.
C2_FailedCardSourceShown ==
  [][Returns =>
       \A s \in SourceSet :
         /\ (pass.res[s] = Failed /\ s \in ErrorCardSources
               /\ ~StaleHasGames(staleLeagues[pass.date].leagues, s))
              => ErrorCard(Returned, s)
         /\ (pass.res[s] = Failed /\ s \notin ErrorCardSources)
              => GroupsOf(Returned, s) = {}
         /\ (pass.res[s].st = "ok" /\ Len(pass.res[s].value) > 0)
              => Populated(Returned, s, pass.res[s].value)]_vars

\* a pass returned an error card for NPB next to populated MLB and KBO groups
C2_Witness ==
  /\ lastDone["d1"].has
  /\ lastDone["d1"].res["npb"] = Failed
  /\ ErrorCard(LastLeagues("d1"), "npb")
  /\ Populated(LastLeagues("d1"), "mlb", lastDone["d1"].res["mlb"].value)
  /\ Populated(LastLeagues("d1"), "kbo", lastDone["d1"].res["kbo"].value)

(* ------------------------------------------------------------------ *)
(* C3                                                                  *)
(* ------------------------------------------------------------------ *)
\* C3: if a pass for date D returned a non-empty games list for source X
\* (MLB, NPB, KBO, College Baseball) and X's fetch fails on the next pass
\* for D, the next result's group for X has the previously returned games,
\* stale = true and the error 'Data may be delayed'.
C3_StaleAfterReturnedGames ==
  [][Returns =>
       \A s \in ErrorCardSources :
         (/\ lastDone[pass.date].has
          /\ StaleHasGames(LastLeagues(pass.date), s)
          /\ pass.res[s] = Failed)
           => \E i \in GroupsOf(Returned, s) :
                \E j \in GroupsOf(LastLeagues(pass.date), s) :
                  /\ Returned[i].games = LastLeagues(pass.date)[j].games
                  /\ Returned[i].stale
                  /\ Returned[i].error = ErrDelayed]_vars

(* ------------------------------------------------------------------ *)
(* C4                                                                  *)
(* ------------------------------------------------------------------ *)
\* the statuses of all games of all leagues of a list
StatusesOf(leagues) ==
  UNION {{leagues[i].games[j].status : j \in 1..Len(leagues[i].games)} :
           i \in 1..Len(leagues)}

\* C4: in every result, hasLive is true exactly when some game of some
\* returned league, stale ones included, has status 'live'.
C4_HasLiveExact ==
  \A d \in Dates :
    lastDone[d].has =>
      (lastDone[d].result.hasLive <=> "live" \in StatusesOf(LastLeagues(d)))

\* a result whose only live game was substituted from the stale store
C4_Witness ==
  /\ lastDone["d2"].has
  /\ lastDone["d2"].result.hasLive
  /\ \A i \in 1..Len(LastLeagues("d2")) :
       "live" \in StatusesOf(<<LastLeagues("d2")[i]>>) => LastLeagues("d2")[i].stale

(* ------------------------------------------------------------------ *)
(* C5                                                                  *)
(* ------------------------------------------------------------------ *)
\* C5: in every league group of every result, stale = true implies that
\* error is set to the softened text, and a group with error set and games
\* has stale = true.
C5_StaleImpliesError ==
  \A d \in Dates :
    lastDone[d].has =>
      \A i \in 1..Len(LastLeagues(d)) :
        /\ LastLeagues(d)[i].stale => LastLeagues(d)[i].error = ErrDelayed
        /\ (LastLeagues(d)[i].error # NoError /\ LastLeagues(d)[i].games # <<>>)
             => LastLeagues(d)[i].stale

\* a result with a stale group next to an error card without games
C5_Witness ==
  \E d \in Dates :
    /\ lastDone[d].has
    /\ \E i \in 1..Len(LastLeagues(d)) :
         LastLeagues(d)[i].stale /\ LastLeagues(d)[i].games # <<>>
    /\ \E i \in 1..Len(LastLeagues(d)) :
         LastLeagues(d)[i].error = ErrUnavailable

(* ------------------------------------------------------------------ *)
(* C6                                                                  *)
(* ------------------------------------------------------------------ *)
\* the place of a league id in the fixed order MLB, MiLB levels, NPB, KBO,
\* College Baseball, World Baseball Classic
Rank(id) ==
  CASE id = 1 -> 1
    [] id \in {11, 12, 13, 14} -> id - 9
    [] id = 2 -> 6
    [] id = 3 -> 7
    [] id = 16 -> 8
    [] id = 20 -> 9
    [] OTHER -> 0

InFixedOrder(leagues) ==
  /\ \A i \in 1..Len(leagues) : Rank(leagues[i].id) # 0
  /\ \A i, j \in 1..Len(leagues) :
       i < j => Rank(leagues[i].id) < Rank(leagues[j].id)

EntryOf(leagues) ==
  [has |-> TRUE,
   leagues |-> SelectSeq(leagues, LAMBDA l : l.error = NoError)]

\* only the stale entry of the date of the pass may differ after the step
OtherDatesKept ==
  \A d \in Dates \ {pass.date} : staleLeagues'[d] = staleLeagues[d]

Fails(s) == sourceHealth[s].consecutiveFails

\* a success of source s has been recorded
Succeeded(s) == sourceHealth[s].lastSuccessAt # NoTime

C10_FailsCounted ==
  \A s \in SourceSet :
    /\ sourceHealth[s].consecutiveFails = failsSince[s]
    /\ failsSince[s] = 0 => sourceHealth[s].lastError = NoError

\* MLB failed twice after a success, KBO succeeded after a failure
C10_Witness ==
  /\ Succeeded("mlb") /\ failsSince["mlb"] = 2 /\ Fails("mlb") = 2
  /\ sourceHealth["kbo"].lastErrorAt # NoTime /\ failsSince["kbo"] = 0
  /\ sourceHealth["kbo"].lastError = NoError

(* ------------------------------------------------------------------ *)
(* withRetry                                                           *)
(* ------------------------------------------------------------------ *)
\* the baseDelayMs options given (1000 is the default)
BaseDelays == {100, 1000}

\* what fn resolves with, and what it throws
FnValues == {"v1", "v2"}

FnErrors == {"E1", "E2"}

\* the loop test that gives up one attempt early
LoopContinuesShort(attempt, retries) == attempt <= retries

\* for (...; attempt <= retries + 1; ...)
LoopContinues(attempt, retries) == attempt <= retries + 1

\* if (attempt <= retries)
MayRetry(attempt, retries) == attempt <= retries

\* a backoff that grows linearly
RetryDelayLinear(baseDelayMs, attempt) == baseDelayMs * attempt

\* baseDelayMs * Math.pow(2, attempt - 1)
RetryDelay(baseDelayMs, attempt) == baseDelayMs * 2^(attempt - 1)

\* the loop test with the counter at `attempt`: the next call of fn, or
\* `throw lastErr` after the loop
LoopAt(r, attempt) ==
  IF LoopContinues(attempt, r.retries)
    THEN [r EXCEPT !.st = "calling", !.attempt = attempt, !.calls = @ + 1]
    ELSE [r EXCEPT !.st = "thrown", !.attempt = attempt, !.thrown = r.lastErr]

\* withRetry(fn, {retries, baseDelayMs}) is called
withRetry(retries, baseDelayMs) ==
  /\ retry.st = "idle"
  /\ retry' = LoopAt([retry EXCEPT !.retries = retries, !.baseDelayMs = baseDelayMs], 1)
  /\ UNCHANGED <<coreVars, throttleVars, streamVars, clientVars>>

\* fn resolves with v: return await fn()
FnResolve(v) ==
  /\ retry.st = "calling"
  /\ retry' = [retry EXCEPT !.st = "returned", !.fnValue = v, !.value = v]
  /\ UNCHANGED <<coreVars, throttleVars, streamVars, clientVars>>

\* fn throws e: the catch block, up to the sleep or to the next loop test
FnReject(e) ==
  /\ retry.st = "calling"
  /\ LET caught == [retry EXCEPT !.lastErr = e, !.errs = Append(@, e)]
     IN  retry' =
           IF MayRetry(retry.attempt, retry.retries)
             THEN [caught EXCEPT !.st = "sleeping",
                                 !.waits = Append(@, RetryDelay(retry.baseDelayMs, retry.attempt))]
             ELSE LoopAt(caught, retry.attempt + 1)
  /\ UNCHANGED <<coreVars, throttleVars, streamVars, clientVars>>

\* the timer of sleep(delay) fires: attempt++ and the loop test
SleepDone ==
  /\ retry.st = "sleeping"
  /\ retry' = LoopAt(retry, retry.attempt + 1)
  /\ UNCHANGED <<coreVars, throttleVars, streamVars, clientVars>>

RetryNext ==
  \/ \E retries \in 0..MaxRetries, baseDelayMs \in BaseDelays : withRetry(retries, baseDelayMs)
  \/ \E v \in FnValues : FnResolve(v)
  \/ \E e \in FnErrors : FnReject(e)
  \/ SleepDone

RetrySpec == Init /\ [][RetryNext]_vars

(* ------------------------------------------------------------------ *)
(* C11                                                                 *)
(* ------------------------------------------------------------------ *)
\* C11: withRetry calls fn one attempt at a time, never more than
\* retries + 1 times; it returns the value of the first attempt that
\* succeeded and calls fn no more; it throws only after retries + 1 failed
\* attempts, and then the error of the last attempt.
C11_FirstSuccessOrLastError ==
  /\ retry.calls <= retry.retries + 1
  /\ retry.st = "calling" => retry.calls = Len(retry.errs) + 1
  /\ retry.st = "sleeping" => retry.calls = Len(retry.errs) /\ retry.calls <= retry.retries
  /\ retry.st = "returned" =>
       /\ retry.value = retry.fnValue
       /\ retry.calls = Len(retry.errs) + 1
  /\ retry.st = "thrown" =>
       /\ retry.calls = retry.retries + 1
       /\ Len(retry.errs) = retry.retries + 1
       /\ retry.thrown = retry.errs[Len(retry.errs)]

\* three attempts failed with retries = 2, the last with another error than
\* the first two
C11_Witness ==
  /\ retry.st = "thrown"
  /\ retry.retries = 2
  /\ retry.errs = <<"E1", "E1", "E2">>
  /\ retry.thrown = "E2"

(* ------------------------------------------------------------------ *)
(* C12                                                                 *)
(* ------------------------------------------------------------------ *)
\* C12: the i-th wait of withRetry is baseDelayMs * 2^(i-1) and follows the
\* i-th failed attempt, i <= retries; no wait follows the final attempt or a
\* success; with retries = 2, baseDelayMs = 100 and fn always throwing, fn
\* runs 3 times and the waits are 100 then 200.
C12_BackoffDoubles ==
  /\ \A i \in 1..Len(retry.waits) :
       /\ i <= retry.retries
       /\ i <= Len(retry.errs)
       /\ retry.waits[i] = retry.baseDelayMs * 2^(i - 1)
  /\ retry.st \in {"calling", "sleeping", "returned"} => Len(retry.waits) = Len(retry.errs)
  /\ retry.st = "thrown" => Len(retry.waits) = retry.retries
  /\ (retry.st = "thrown" /\ retry.retries = 2 /\ retry.baseDelayMs = 100) =>
       retry.calls = 3 /\ retry.waits = <<100, 200>>

\* retries = 3 and fn always throwing: three waits, 100, 200 and 400, and none
\* after the fourth attempt
C12_Witness ==
  /\ retry.st = "thrown"
  /\ retry.retries = 3
  /\ retry.baseDelayMs = 100
  /\ retry.calls = 4
  /\ retry.waits = <<100, 200, 400>>

(* ------------------------------------------------------------------ *)
(* throttle of the rate limiter                                        *)
(* ------------------------------------------------------------------ *)
\* the clock advances by this much in one step
TimeStep == 100

\* the urls throttle is called with
Urls == {"https://www.koreabaseball.com/ws/Main.asmx", "https://statsapi.mlb.com/api/v1/schedule",
         "https://example.com/feed", "not a url"}

\* new URL(url).hostname; "" stands for the TypeError of an invalid url
Hostname(url) ==
  CASE url = "https://www.koreabaseball.com/ws/Main.asmx" -> "www.koreabaseball.com"
    [] url = "https://statsapi.mlb.com/api/v1/schedule" -> "statsapi.mlb.com"
    [] url = "https://example.com/feed" -> "example.com"
    [] OTHER -> ""

MaxOf(a, b) == IF a >= b THEN a ELSE b

\* a wait computed from the latest request to any host
ThrottleWaitAnyHost(hostname, last, t) ==
  LET latest == CHOOSE x \in {lastRequestAt[h] : h \in Hosts} :
                  \A h \in Hosts : x >= lastRequestAt[h]
  IN  MaxOf(0, latest + DOMAIN_MIN_INTERVAL_MS[hostname] - t)

\* Math.max(0, last + interval - Date.now())
ThrottleWait(hostname, last, t) == MaxOf(0, last + DOMAIN_MIN_INTERVAL_MS[hostname] - t)

\* the calls of hostname that have resolved
Resolved(hostname) ==
  {i \in 1..Len(calls) : calls[i].host = hostname /\ calls[i].st = "resolved"}

\* throttle(url) is called, and runs to its return or to its await
throttle(url) ==
  /\ Len(calls) < MaxCalls
  /\ LET hostname == Hostname(url)
         call == [url |-> url, host |-> hostname, start |-> now, seen |-> Resolved(hostname),
                  wait |-> 0, st |-> "resolved", end |-> now]
     IN  IF hostname \notin Hosts
           THEN \* the catch of new URL, or no interval configured: return
                /\ calls' = Append(calls, [call EXCEPT !.host = ""])
                /\ UNCHANGED lastRequestAt
           ELSE LET wait == ThrottleWait(hostname, lastRequestAt[hostname], now)
                IN  IF wait > 0
                      THEN /\ calls' = Append(calls, [call EXCEPT !.wait = wait, !.st = "waiting"])
                           /\ UNCHANGED lastRequestAt
                      ELSE /\ calls' = Append(calls, call)
                           /\ lastRequestAt' = [lastRequestAt EXCEPT ![hostname] = now]
  /\ UNCHANGED <<coreVars, retryVars, streamVars, clientVars, now>>

\* the timer of call i fires, not before its delay has passed:
\* lastRequestAt.set(hostname, Date.now())
ThrottleResume(i) ==
  /\ calls[i].st = "waiting"
  /\ now >= calls[i].start + calls[i].wait
  /\ calls' = [calls EXCEPT ![i].st = "resolved", ![i].end = now]
  /\ lastRequestAt' = [lastRequestAt EXCEPT ![calls[i].host] = now]
  /\ UNCHANGED <<coreVars, retryVars, streamVars, clientVars, now>>

\* time passes
ClockStep ==
  /\ now < StartTime + MaxTicks * TimeStep
  /\ now' = now + TimeStep
  /\ UNCHANGED <<coreVars, retryVars, streamVars, clientVars, lastRequestAt, calls>>

ThrottleNext ==
  \/ \E url \in Urls : throttle(url)
  \/ \E i \in 1..Len(calls) : ThrottleResume(i)
  \/ ClockStep

ThrottleSpec == Init /\ [][ThrottleNext]_vars

(* ------------------------------------------------------------------ *)
(* C13                                                                 *)
(* ------------------------------------------------------------------ *)
\* C13: any two calls of throttle for the same configured host resolve at
\* least the interval of the host apart, overlapping calls included.
C13_CompletionsSpaced ==
  \A i, j \in 1..Len(calls) :
    (i # j /\ calls[i].host \in Hosts /\ calls[j].host = calls[i].host
       /\ calls[i].st = "resolved" /\ calls[j].st = "resolved"
       /\ calls[j].end >= calls[i].end)
      => calls[j].end - calls[i].end >= DOMAIN_MIN_INTERVAL_MS[calls[i].host]

(* ------------------------------------------------------------------ *)
(* C14                                                                 *)
(* ------------------------------------------------------------------ *)
\* C14: the wait of a call is computed from the last resolution of its own
\* host alone: a call made after another call of its host has resolved
\* resolves at least the interval later, a call whose host has no resolved
\* call yet does not wait, whatever calls were made for other hosts, and the
\* timestamp of a host is the time of the last resolved call of that host.
C14_OwnHostOnly ==
  /\ \A j \in 1..Len(calls) :
       calls[j].host \in Hosts =>
         /\ \A i \in calls[j].seen :
              /\ calls[j].start + calls[j].wait >= calls[i].end + DOMAIN_MIN_INTERVAL_MS[calls[j].host]
              /\ calls[j].st = "resolved" =>
                   calls[j].end >= calls[i].end + DOMAIN_MIN_INTERVAL_MS[calls[j].host]
         /\ calls[j].seen = {} => calls[j].wait = 0 /\ calls[j].st = "resolved"
         /\ (calls[j].wait > 0) =>
              \E i \in calls[j].seen :
                calls[j].start + calls[j].wait = calls[i].end + DOMAIN_MIN_INTERVAL_MS[calls[j].host]
  /\ \A h \in Hosts :
       /\ Resolved(h) = {} => lastRequestAt[h] = 0
       /\ Resolved(h) # {} =>
            /\ \E i \in Resolved(h) : lastRequestAt[h] = calls[i].end
            /\ \A i \in Resolved(h) : lastRequestAt[h] >= calls[i].end

\* a KBO call resolves, an MLB call is made while the next KBO call waits,
\* and the second KBO call resolves 500 ms after the first
C14_Witness ==
  /\ Len(calls) = 3
  /\ calls[1].host = "www.koreabaseball.com" /\ calls[1].st = "resolved"
  /\ calls[2].host = "www.koreabaseball.com" /\ calls[2].st = "resolved"
  /\ calls[2].seen = {1} /\ calls[2].wait > 0
  /\ calls[2].end = calls[1].end + 500
  /\ calls[3].host = "statsapi.mlb.com" /\ calls[3].st = "resolved"
  /\ calls[3].wait = 0 /\ calls[3].end < calls[2].end

(* ------------------------------------------------------------------ *)
(* The live-stream route: GET and start(controller)                    *)
(* ------------------------------------------------------------------ *)
\* g.count?.outs of a game without count
Undefined == -1

NoCount == [has |-> FALSE, balls |-> 0, outs |-> 0]

Count(balls, outs) == [has |-> TRUE, balls |-> balls, outs |-> outs]

\* the scheduledTime of the game of the fixtures that has not started
ScheduledAt == 2000000

\* game 7, under way or over; its count.balls is not part of the snapshot
Game7(status, homeScore, balls) ==
  [id |-> 7, status |-> status, scheduledTime |-> StartTime,
   homeScore |-> homeScore, awayScore |-> 0, currentInning |-> 3, inningHalf |-> "top",
   outs |-> 1, count |-> Count(balls, 1)]

\* game 7 under way at 1-0 when the live feed failed or has no current play:
\* outs comes from the linescore and there is no count
Game7NoPlay(outs) ==
  [Game7("live", 1, 0) EXCEPT !.outs = outs, !.count = NoCount]

\* game 8, to be played at ScheduledAt
Game8(status) ==
  [id |-> 8, status |-> status, scheduledTime |-> ScheduledAt,
   homeScore |-> 0, awayScore |-> 0, currentInning |-> 0, inningHalf |-> "top",
   outs |-> Undefined, count |-> NoCount]

StreamLeague(id, name, games) == LeagueGroup(id, name, games, FALSE, FALSE, NoError)

StreamResult(leagues) == [leagues |-> leagues, hasLive |-> HasLive(leagues)]

\* what buildScores(date) resolves with for the connection
StreamResults ==
  {StreamResult(<<StreamLeague(1, "MLB", <<Game7("live", 1, 0)>>), StreamLeague(3, "KBO", <<Game8("scheduled")>>)>>),
   StreamResult(<<StreamLeague(1, "MLB", <<Game7("live", 1, 2)>>), StreamLeague(3, "KBO", <<Game8("scheduled")>>)>>),
   StreamResult(<<StreamLeague(1, "MLB", <<Game7("live", 2, 0)>>), StreamLeague(3, "KBO", <<Game8("live")>>)>>),
   StreamResult(<<StreamLeague(1, "MLB", <<Game7("final", 2, 0)>>), StreamLeague(3, "KBO", <<Game8("scheduled")>>)>>),
   StreamResult(<<StreamLeague(1, "MLB", <<Game7NoPlay(1)>>), StreamLeague(3, "KBO", <<Game8("scheduled")>>)>>),
   StreamResult(<<StreamLeague(1, "MLB", <<Game7NoPlay(2)>>), StreamLeague(3, "KBO", <<Game8("scheduled")>>)>>),
   StreamResult(<<StreamLeague(1, "MLB", <<>>)>>)}

\* the instants at which the clock is read: around 30 minutes before
\* ScheduledAt, and around ScheduledAt
StreamInstants ==
  {ScheduledAt - 1800001, ScheduledAt - 1800000, ScheduledAt - 1, ScheduledAt, ScheduledAt + 1}

\* snapshotGame: the JSON text of these six fields, a missing outs left out
snapshotGame(g) ==
  [homeScore |-> g.homeScore, awayScore |-> g.awayScore, status |-> g.status,
   currentInning |-> g.currentInning, inningHalf |-> g.inningHalf,
   outs |-> IF g.count.has THEN g.count.outs ELSE Undefined]

\* isPreGame that counts a game starting right now
isPreGameInclusive(g, t) ==
  /\ g.status = "scheduled"
  /\ g.scheduledTime - t >= 0
  /\ g.scheduledTime - t <= 30 * 60 * 1000

\* isPreGame, Date.now() being t
isPreGame(g, t) ==
  /\ g.status = "scheduled"
  /\ g.scheduledTime - t > 0
  /\ g.scheduledTime - t <= 30 * 60 * 1000

getInterval(hasLive, hasPreGame) ==
  IF hasLive THEN 15000 ELSE IF hasPreGame THEN 60000 ELSE 300000

RECURSIVE AllGames(_)
\* the games of the leagues, in the order of the two nested for loops
AllGames(leagues) ==
  IF leagues = <<>> THEN <<>> ELSE Head(leagues).games \o AllGames(Tail(leagues))

\* scores.leagues.some((l) => l.games.some(isPreGame))
HasPreGame(scores, t) ==
  \E i \in 1..Len(AllGames(scores.leagues)) : isPreGame(AllGames(scores.leagues)[i], t)

\* send: enqueue throws on a closed controller, and the throw is swallowed
send(c, event, data) ==
  [c EXCEPT !.out = Append(@, [event |-> event, data |-> data,
                               delivered |-> ~c.closed, afterAbort |-> c.aborted])]

RECURSIVE SetSnapshots(_, _)
\* snapshots.set(game.id, snapshotGame(game)) for each game in turn
SetSnapshots(games, snapshots) ==
  IF games = <<>> THEN snapshots
  ELSE SetSnapshots(Tail(games), (Head(games).id :> snapshotGame(Head(games))) @@ snapshots)

\* the snapshot of the live games only
InitialSnapshotsLiveOnly(scores) ==
  SetSnapshots(SelectSeq(AllGames(scores.leagues), LAMBDA g : g.status = "live"), <<>>)

\* the snapshots built after init
InitialSnapshots(scores) == SetSnapshots(AllGames(scores.leagues), <<>>)

RECURSIVE DiffGamesAll(_, _, _)
\* a diff that reports every game of the result
DiffGamesAll(games, snapshots, changedGames) ==
  IF games = <<>> THEN [changedGames |-> changedGames, snapshots |-> snapshots]
  ELSE DiffGamesAll(Tail(games), (Head(games).id :> snapshotGame(Head(games))) @@ snapshots,
                    Append(changedGames, Head(games)))

RECURSIVE DiffGames(_, _, _)
\* the diff loop of a tick: the changed games and the snapshots after it
DiffGames(games, snapshots, changedGames) ==
  IF games = <<>> THEN [changedGames |-> changedGames, snapshots |-> snapshots]
  ELSE LET game == Head(games)
           curr == snapshotGame(game)
       IN  IF game.id \in DOMAIN snapshots /\ snapshots[game.id] = curr
             THEN DiffGames(Tail(games), snapshots, changedGames)
             ELSE DiffGames(Tail(games), (game.id :> curr) @@ snapshots, Append(changedGames, game))

\* scheduleNext: arm the timer with the delay of the current scores
scheduleNext(c, t) ==
  [c EXCEPT !.timer = TRUE,
            !.interval = getInterval(c.scores.hasLive, HasPreGame(c.scores, t)),
            !.armedAt = t,
            !.lateTimers = IF c.aborted THEN @ + 1 ELSE @]

\* the try block of a tick after buildScores resolved with r
OnTickResult(c, r, t) ==
  LET diff == DiffGames(AllGames(r.leagues), c.snapshots, <<>>)
      c1 == [c EXCEPT !.scores = r, !.snapshots = diff.snapshots, !.lastTick = "resolved"]
  IN  IF Len(diff.changedGames) > 0
        THEN send(c1, "update", [games |-> diff.changedGames, hasLive |-> r.hasLive])
        ELSE send(c1, "ping", [ts |-> t])

\* a tick that drops the error without a keepalive
OnTickErrorSilent(c, t) == [c EXCEPT !.lastTick = "rejected"]

\* the catch block of a tick
OnTickError(c, t) == send([c EXCEPT !.lastTick = "rejected"], "ping", [ts |-> t])

\* GET: the stream is created and start(controller) runs up to
\* `await buildScores(date)`
GET ==
  /\ conn.st = "idle"
  /\ conn' = [conn EXCEPT !.st = "loading", !.builds = 1]
  /\ UNCHANGED <<coreVars, retryVars, throttleVars, clientVars>>

\* the initial buildScores resolves with r: init is sent, the snapshots are
\* built, the first timer is armed and the abort listener is added
InitResolve(r) ==
  /\ conn.st = "loading"
  /\ LET c1 == send([conn EXCEPT !.scores = r, !.loaded = r], "init", r)
         c2 == [c1 EXCEPT !.snapshots = InitialSnapshots(r)]
         c3 == scheduleNext(c2, now)
     IN  conn' = [c3 EXCEPT !.st = "waiting", !.listener = TRUE]
  /\ UNCHANGED <<coreVars, retryVars, throttleVars, clientVars>>

\* the initial buildScores rejects: start rejects and the stream is errored
InitReject ==
  /\ conn.st = "loading"
  /\ conn' = [conn EXCEPT !.st = "errored"]
  /\ UNCHANGED <<coreVars, retryVars, throttleVars, clientVars>>

\* a fixed-rate timer: it stays armed while its callback runs
startTickFixedRate(c) ==
  [c EXCEPT !.st = "ticking", !.builds = @ + 1, !.ticks = @ + 1]

\* the callback of setTimeout starts: the timer is spent, buildScores is called
startTick(c) ==
  [c EXCEPT !.timer = FALSE, !.st = "ticking", !.builds = @ + 1, !.ticks = @ + 1]

\* the timer fires: return if the signal is aborted, else start the rebuild
TimerFires ==
  /\ conn.st = "waiting"
  /\ conn.timer
  /\ IF conn.aborted
       THEN conn' = [conn EXCEPT !.timer = FALSE, !.st = "stopped"]
       ELSE /\ conn.ticks < MaxStreamTicks
            /\ conn' = startTick(conn)
  /\ UNCHANGED <<coreVars, retryVars, throttleVars, clientVars>>

\* the buildScores of a tick resolves with r
TickResolve(r) ==
  /\ conn.st = "ticking"
  /\ conn' = [scheduleNext(OnTickResult(conn, r, now), now) EXCEPT !.st = "waiting"]
  /\ UNCHANGED <<coreVars, retryVars, throttleVars, clientVars>>

\* the buildScores of a tick rejects
TickReject ==
  /\ conn.st = "ticking"
  /\ conn' = [scheduleNext(OnTickError(conn, now), now) EXCEPT !.st = "waiting"]
  /\ UNCHANGED <<coreVars, retryVars, throttleVars, clientVars>>

\* request.signal aborts; the listener, if it was added, clears the timer
\* and closes the controller
Abort ==
  /\ conn.st \in {"loading", "waiting", "ticking"}
  /\ ~conn.aborted
  /\ LET c1 == [conn EXCEPT !.aborted = TRUE, !.buildsAtAbort = conn.builds]
     IN  conn' =
           IF conn.listener
             THEN [c1 EXCEPT !.timer = FALSE, !.closed = TRUE,
                             !.st = IF conn.st = "waiting" THEN "stopped" ELSE @]
             ELSE c1
  /\ UNCHANGED <<coreVars, retryVars, throttleVars, clientVars>>

\* time passes up to the instant t
StreamClock(t) ==
  /\ conn.st \in {"loading", "waiting", "ticking"}
  /\ t > now
  /\ now' = t
  /\ UNCHANGED <<coreVars, retryVars, streamVars, clientVars, lastRequestAt, calls>>

StreamNext ==
  \/ GET
  \/ \E r \in StreamResults : InitResolve(r)
  \/ InitReject
  \/ TimerFires
  \/ \E r \in StreamResults : TickResolve(r)
  \/ TickReject
  \/ Abort
  \/ \E t \in StreamInstants : StreamClock(t)

StreamSpec == Init /\ [][StreamNext]_vars

(* ------------------------------------------------------------------ *)
(* Vocabulary of the live-stream claims                                *)
(* ------------------------------------------------------------------ *)
\* the games of a result, as a set
GamesIn(scores) ==
  {AllGames(scores.leagues)[i] : i \in 1..Len(AllGames(scores.leagues))}

LastOut == conn'.out[Len(conn'.out)]

\* a step in which the rebuild of a tick resolved, or rejected
TickResolved == conn.st = "ticking" /\ conn'.st = "waiting" /\ conn'.lastTick = "resolved"

TickRejected == conn.st = "ticking" /\ conn'.st = "waiting" /\ conn'.lastTick = "rejected"

\* the games of the rebuilt result whose projection differs from the
\* snapshot the connection held before the tick
ChangedByTick ==
  {g \in GamesIn(conn'.scores) :
     g.id \notin DOMAIN conn.snapshots \/ conn.snapshots[g.id] # snapshotGame(g)}

(* ------------------------------------------------------------------ *)
(* C15                                                                 *)
(* ------------------------------------------------------------------ *)
\* C15: the first call of send on a connection is the init with the whole
\* result of the initial buildScores, there is one init only, every later
\* message is an update or a ping, and the snapshots before the first tick
\* hold the projection of each game of that same result.
C15_InitFirstOnce ==
  /\ conn.st \in {"idle", "loading", "errored"} => conn.out = <<>>
  /\ conn.st \in {"waiting", "ticking", "stopped"} =>
       /\ Len(conn.out) >= 1
       /\ conn.out[1].event = "init"
       /\ conn.out[1].data = conn.loaded
  /\ \A i \in 2..Len(conn.out) : conn.out[i].event \in {"update", "ping"}
  /\ Len(conn.out) = 1 =>
       /\ DOMAIN conn.snapshots = {g.id : g \in GamesIn(conn.loaded)}
       /\ \A g \in GamesIn(conn.loaded) : conn.snapshots[g.id] = snapshotGame(g)

\* an init with two games, one of them not live, then an update and a ping
C15_Witness ==
  /\ Len(conn.out) = 3
  /\ conn.out[1].event = "init"
  /\ Cardinality(GamesIn(conn.loaded)) = 2
  /\ ~conn.loaded.hasLive
  /\ conn.out[2].event = "update"
  /\ conn.out[3].event = "ping"

(* ------------------------------------------------------------------ *)
(* C16                                                                 *)
(* ------------------------------------------------------------------ *)
\* C16: a tick whose rebuild resolved calls send once: with the update of
\* exactly the changed games and the hasLive of the rebuilt result, the
\* snapshots being replaced for exactly those games, if some game changed;
\* with a ping, the snapshots being left as they were, if none did.
C16_UpdateIsTheChangedGames ==
  [][TickResolved =>
       /\ Len(conn'.out) = Len(conn.out) + 1
       /\ ChangedByTick # {} =>
            /\ LastOut.event = "update"
            /\ {LastOut.data.games[i] : i \in 1..Len(LastOut.data.games)} = ChangedByTick
            /\ Len(LastOut.data.games) = Cardinality(ChangedByTick)
            /\ LastOut.data.hasLive = conn'.scores.hasLive
            /\ DOMAIN conn'.snapshots = DOMAIN conn.snapshots \cup {g.id : g \in ChangedByTick}
            /\ \A g \in ChangedByTick : conn'.snapshots[g.id] = snapshotGame(g)
            /\ \A id \in DOMAIN conn.snapshots \ {g.id : g \in ChangedByTick} :
                 conn'.snapshots[id] = conn.snapshots[id]
       /\ ChangedByTick = {} =>
            /\ LastOut.event = "ping"
            /\ conn'.snapshots = conn.snapshots
  ]_vars

\* a tick in which game 7 alone changed, out of two games, and then a tick in
\* which nothing changed
C16_Witness ==
  /\ Len(conn.out) = 3
  /\ Cardinality(GamesIn(conn.loaded)) = 2
  /\ conn.out[2].event = "update"
  /\ Len(conn.out[2].data.games) = 1
  /\ conn.out[2].data.games[1].id = 7
  /\ conn.out[3].event = "ping"
  /\ conn.lastTick = "resolved"
  /\ Cardinality(GamesIn(conn.scores)) = 2

(* ------------------------------------------------------------------ *)
(* C17                                                                 *)
(* ------------------------------------------------------------------ *)
\* C17: the delay of the armed timer is 15 s if the current result has
\* hasLive, else 60 s if a game of it is scheduled and starts within the 30
\* minutes after the arming, else 300 s.
C17_AdaptiveInterval ==
  conn.timer =>
    conn.interval =
      IF conn.scores.hasLive THEN 15000
      ELSE IF \E g \in GamesIn(conn.scores) :
                /\ g.status = "scheduled"
                /\ g.scheduledTime > conn.armedAt
                /\ g.scheduledTime <= conn.armedAt + 1800000
             THEN 60000
      ELSE 300000

\* no live game, and a game that starts exactly 30 minutes after the arming
C17_Witness ==
  /\ conn.timer
  /\ ~conn.scores.hasLive
  /\ conn.armedAt = ScheduledAt - 1800000
  /\ conn.interval = 60000
  /\ conn.ticks >= 1

(* ------------------------------------------------------------------ *)
(* C18                                                                 *)
(* ------------------------------------------------------------------ *)
\* C18: once the signal is aborted no timer is armed any more and
\* buildScores is not started again.
C18_NothingScheduledAfterAbort ==
  conn.aborted =>
    /\ conn.lateTimers = 0
    /\ conn.builds = conn.buildsAtAbort

(* ------------------------------------------------------------------ *)
(* C19                                                                 *)
(* ------------------------------------------------------------------ *)
\* C19: whenever the abort comes, the initial load included, the controller
\* is closed from then on and no message sent after the abort is delivered.
C19_ClosedAndSilentAfterAbort ==
  /\ conn.aborted => conn.closed
  /\ \A i \in 1..Len(conn.out) : conn.out[i].afterAbort => ~conn.out[i].delivered

(* ------------------------------------------------------------------ *)
(* C20                                                                 *)
(* ------------------------------------------------------------------ *)
\* C20: a tick whose buildScores threw calls send once, with a ping, leaves
\* the snapshots and the current result as they were, does not close the
\* controller, and arms the next timer.
C20_ErrorTickPings ==
  [][TickRejected =>
       /\ Len(conn'.out) = Len(conn.out) + 1
       /\ SubSeq(conn'.out, 1, Len(conn.out)) = conn.out
       /\ LastOut.event = "ping"
       /\ conn'.snapshots = conn.snapshots
       /\ conn'.scores = conn.scores
       /\ conn'.closed = conn.closed
       /\ conn'.timer
  ]_vars

\* after a failed rebuild on an open stream: a delivered ping is the last
\* message and the timer is armed
C20_Witness ==
  /\ conn.lastTick = "rejected"
  /\ conn.st = "waiting"
  /\ conn.timer
  /\ ~conn.closed
  /\ Len(conn.out) = 2
  /\ conn.out[2].event = "ping"
  /\ conn.out[2].delivered

(* ------------------------------------------------------------------ *)
(* useLiveStream: the SSE path                                         *)
(* ------------------------------------------------------------------ *)
MinOf(a, b) == IF a <= b THEN a ELSE b

\* Math.min(reconnectDelay * 2, 60_000)
NextDelay(reconnectDelay) == MinOf(reconnectDelay * 2, 60000)

\* the EventSources created by the effect that are not closed
OpenCount(c) == (IF c.es = "open" THEN 1 ELSE 0) + c.orphans

\* the reconnect timers armed by the effect that are pending
PendingTimers(c) == (IF c.reconnectTimer = "pending" THEN 1 ELSE 0) + c.strayTimers

\* connect(): es = new EventSource(...), unless destroyed; an EventSource
\* that es referred to stays open
connect(c) ==
  IF c.destroyed THEN c
  ELSE [c EXCEPT !.es = "open",
                 !.orphans = IF c.es = "open" THEN @ + 1 ELSE @,
                 !.lateCreated = IF c.mounted = "unmounted" THEN @ + 1 ELSE @]

\* es?.close(); es = null
closeEs(c) == [c EXCEPT !.es = "null"]

\* reconnectTimer = setTimeout(..., reconnectDelay); a timer that
\* reconnectTimer referred to stays pending.  armedSince and sinceReset count
\* the reconnect timers armed since reconnectDelay was last reset
armReconnect(c) ==
  [c EXCEPT !.strayTimers = IF c.reconnectTimer = "pending" THEN @ + 1 ELSE @,
            !.reconnectTimer = "pending",
            !.armedDelay = c.reconnectDelay,
            !.armedSince = c.sinceReset,
            !.sinceReset = @ + 1]

\* if (reconnectTimer !== undefined) clearTimeout(reconnectTimer)
clearReconnect(c) ==
  [c EXCEPT !.reconnectTimer = IF @ = "pending" THEN "cleared" ELSE @]

\* the effect runs with document.hidden = hidden: connect(), and the
\* visibilitychange listener is added
Mount(hidden) ==
  /\ client.mounted = "no"
  /\ client' = [connect([client EXCEPT !.mounted = "yes", !.hidden = hidden])
                  EXCEPT !.listening = TRUE]
  /\ UNCHANGED <<coreVars, retryVars, throttleVars, streamVars, poller, scoresReq>>

\* es.onerror of the EventSource es refers to
EsError ==
  /\ client.es = "open"
  /\ client.strayTimers < MaxStrayTimers
  /\ client' = IF client.destroyed THEN closeEs(client) ELSE armReconnect(closeEs(client))
  /\ UNCHANGED <<coreVars, retryVars, throttleVars, streamVars, poller, scoresReq>>

\* es.onerror of an EventSource es no longer refers to: the handler closes
\* the one es refers to; the one in error is closed if the error is fatal,
\* else the browser keeps retrying it
OrphanError(fatal) ==
  /\ client.orphans > 0
  /\ client.strayTimers < MaxStrayTimers
  /\ LET c1 == [closeEs(client) EXCEPT !.orphans = IF fatal THEN @ - 1 ELSE @]
     IN  client' = IF client.destroyed THEN c1 ELSE armReconnect(c1)
  /\ UNCHANGED <<coreVars, retryVars, throttleVars, streamVars, poller, scoresReq>>

\* an init message arrives on an open EventSource: reconnectDelay = 2_000
EsInit ==
  /\ OpenCount(client) > 0
  /\ client' = [client EXCEPT !.reconnectDelay = 2000, !.sinceReset = 0]
  /\ UNCHANGED <<coreVars, retryVars, throttleVars, streamVars, poller, scoresReq>>

\* a reconnect timer expires: the one reconnectTimer refers to, or a stray
ReconnectExpires(stray) ==
  /\ client.expiries < MaxExpiries
  /\ IF stray THEN client.strayTimers > 0 ELSE client.reconnectTimer = "pending"
  /\ LET c1 == IF stray THEN [client EXCEPT !.strayTimers = @ - 1]
                        ELSE [client EXCEPT !.reconnectTimer = "fired"]
         c2 == [c1 EXCEPT !.reconnectDelay = NextDelay(@), !.expiries = @ + 1]
     IN  client' = connect(c2)
  /\ UNCHANGED <<coreVars, retryVars, throttleVars, streamVars, poller, scoresReq>>

\* visibilitychange: document.hidden flips and onVisibilityChange runs if it
\* is still registered
VisibilityChange ==
  /\ client.mounted # "no"
  /\ LET c1 == [client EXCEPT !.hidden = ~client.hidden]
     IN  client' =
           IF ~client.listening THEN c1
           ELSE IF c1.hidden
             THEN [closeEs(clearReconnect(c1)) EXCEPT !.sinceHidden = TRUE]
             ELSE connect([c1 EXCEPT !.reconnectDelay = 2000, !.sinceReset = 0,
                                     !.sinceHidden = FALSE])
  /\ UNCHANGED <<coreVars, retryVars, throttleVars, streamVars, poller, scoresReq>>

\* the cleanup of the effect; es keeps referring to the EventSource it closed
Unmount ==
  /\ client.mounted = "yes"
  /\ client' = [clearReconnect(client) EXCEPT
                  !.destroyed = TRUE, !.mounted = "unmounted", !.listening = FALSE,
                  !.sinceHidden = FALSE,
                  !.es = IF @ = "open" THEN "closed" ELSE @]
  /\ UNCHANGED <<coreVars, retryVars, throttleVars, streamVars, poller, scoresReq>>

ClientNext ==
  \/ \E hidden \in BOOLEAN : Mount(hidden)
  \/ EsError
  \/ \E fatal \in BOOLEAN : OrphanError(fatal)
  \/ EsInit
  \/ \E stray \in BOOLEAN : ReconnectExpires(stray)
  \/ VisibilityChange
  \/ Unmount

ClientSpec == Init /\ [][ClientNext]_vars

(* ------------------------------------------------------------------ *)
(* C21                                                                 *)
(* ------------------------------------------------------------------ *)
\* C21: the delays of the reconnect timers armed after consecutive
\* connection errors with no init in between are 2 s, 4 s, 8 s, 16 s, 32 s,
\* 60 s, 60 s, ...: never below 2 s, never above 60 s, and 2 s for the first
\* one after an init.
C21_BackoffSequence ==
  /\ client.reconnectDelay >= 2000
  /\ client.reconnectDelay <= 60000
  /\ client.armedDelay # 0 =>
       client.armedDelay =
         CASE client.armedSince = 0 -> 2000
           [] client.armedSince = 1 -> 4000
           [] client.armedSince = 2 -> 8000
           [] client.armedSince = 3 -> 16000
           [] client.armedSince = 4 -> 32000
           [] OTHER -> 60000

(* ------------------------------------------------------------------ *)
(* C22                                                                 *)
(* ------------------------------------------------------------------ *)
\* C22: from a hidden event to the next visible event no EventSource of the
\* effect is open and no reconnect timer is pending; a visible event opens a
\* connection at once and resets the delay to 2 s.
C22_SuspendedWhileHidden ==
  /\ [](client.sinceHidden => (OpenCount(client) = 0 /\ PendingTimers(client) = 0))
  /\ [][(client.listening /\ client.hidden /\ ~client'.hidden) =>
          (client'.es = "open" /\ client'.reconnectDelay = 2000)]_vars

(* ------------------------------------------------------------------ *)
(* C29                                                                 *)
(* ------------------------------------------------------------------ *)
\* C29: the effect has at most one open EventSource and at most one pending
\* reconnect timer at any time, and after unmount none is open and none is
\* created.
C29_OneConnectionOneTimer ==
  /\ OpenCount(client) <= 1
  /\ PendingTimers(client) <= 1
  /\ client.mounted = "unmounted" => (OpenCount(client) = 0 /\ client.lateCreated = 0)

(* ------------------------------------------------------------------ *)
(* useLiveStream: the polling fallback                                 *)
(* ------------------------------------------------------------------ *)
\* timer = setTimeout(poll, interval), Date.now() being t
armPoll(p, interval, t) ==
  [p EXCEPT !.timer = TRUE, !.interval = interval, !.armedAt = t,
            !.lateTimers = IF p.cancelled THEN @ + 1 ELSE @]

\* the effect runs with EventSource undefined: poll() is called and awaits
\* its fetch
PollMount ==
  /\ poller.st = "idle"
  /\ poller' = [poller EXCEPT !.st = "fetching", !.polls = 1]
  /\ UNCHANGED <<coreVars, retryVars, throttleVars, streamVars, client, scoresReq>>

\* fetch and res.json() resolve with the result data, res.ok being true
PollResolve(data) ==
  /\ poller.st = "fetching"
  /\ LET p1 == [poller EXCEPT !.data = data, !.fetched = data, !.lastOk = TRUE,
                              !.lateInits = IF poller.cancelled THEN @ + 1 ELSE @]
     IN  poller' =
           IF ~poller.cancelled
             THEN [armPoll(p1, IF data.hasLive THEN 15000 ELSE 300000, now)
                     EXCEPT !.st = "waiting"]
             ELSE [p1 EXCEPT !.st = "stopped"]
  /\ UNCHANGED <<coreVars, retryVars, throttleVars, streamVars, client, scoresReq>>

\* fetch rejects, res.ok is false or res.json() rejects
PollReject ==
  /\ poller.st = "fetching"
  /\ LET p1 == [poller EXCEPT !.lastOk = FALSE]
     IN  poller' =
           IF ~poller.cancelled
             THEN [armPoll(p1, 30000, now) EXCEPT !.st = "waiting"]
             ELSE [p1 EXCEPT !.st = "stopped"]
  /\ UNCHANGED <<coreVars, retryVars, throttleVars, streamVars, client, scoresReq>>

\* the timer expires: poll() runs again
PollTimerFires ==
  /\ poller.timer
  /\ poller.polls < MaxPolls
  /\ poller' = [poller EXCEPT !.st = "fetching", !.timer = FALSE, !.polls = @ + 1]
  /\ UNCHANGED <<coreVars, retryVars, throttleVars, streamVars, client, scoresReq>>

\* the cleanup of the effect: cancelled = true; clearTimeout(timer)
PollCleanup ==
  /\ poller.st \in {"fetching", "waiting"}
  /\ ~poller.cancelled
  /\ poller' = [poller EXCEPT !.cancelled = TRUE, !.timer = FALSE,
                              !.st = IF @ = "waiting" THEN "stopped" ELSE @]
  /\ UNCHANGED <<coreVars, retryVars, throttleVars, streamVars, client, scoresReq>>

\* time passes in the browser
PollClock(t) ==
  /\ poller.st \in {"fetching", "waiting"}
  /\ t > now
  /\ now' = t
  /\ UNCHANGED <<coreVars, retryVars, streamVars, clientVars, lastRequestAt, calls>>

PollNext ==
  \/ PollMount
  \/ \E data \in StreamResults : PollResolve(data)
  \/ PollReject
  \/ PollTimerFires
  \/ PollCleanup
  \/ \E t \in StreamInstants : PollClock(t)

PollSpec == Init /\ [][PollNext]_vars

(* ------------------------------------------------------------------ *)
(* C23                                                                 *)
(* ------------------------------------------------------------------ *)
\* C23: the polling effect polls as soon as it runs; after a successful
\* poll the next poll is scheduled after 15 s if the fetched result has a
\* live game, else 60 s if one of its scheduled games starts within 30
\* minutes, else 300 s; and the local state is the fetched result.
C23_PollCadence ==
  /\ poller.st # "idle" => poller.polls >= 1
  /\ (poller.st = "waiting" /\ poller.lastOk) =>
       /\ poller.timer
       /\ poller.interval =
            getInterval(poller.fetched.hasLive, HasPreGame(poller.fetched, poller.armedAt))
       /\ poller.data = poller.fetched

(* ------------------------------------------------------------------ *)
(* C30                                                                 *)
(* ------------------------------------------------------------------ *)
\* C30: once the cleanup of the polling effect has run, onInit is not
\* invoked and no poll timer is armed, whether or not a fetch was in flight.
C30_NothingAfterCleanup ==
  poller.cancelled =>
    /\ poller.lateInits = 0
    /\ poller.lateTimers = 0
    /\ ~poller.timer

(* ------------------------------------------------------------------ *)
(* GET /api/scores                                                     *)
(* ------------------------------------------------------------------ *)
\* new Date().toISOString().slice(0, 10), character by character
Today == <<"2", "0", "2", "4", "-", "0", "6", "-", "0", "2">>

\* searchParams.get('date'): null when the parameter is absent
DateParams ==
  {[present |-> FALSE, value |-> <<>>],
   [present |-> TRUE, value |-> <<>>],
   [present |-> TRUE, value |-> <<"2", "0", "2", "4", "-", "0", "6", "-", "0", "1">>],
   [present |-> TRUE, value |-> <<"2", "0", "2", "4", "-", "6", "-", "1">>],
   [present |-> TRUE, value |-> <<"0", "6", "/", "0", "1", "/", "2", "0", "2", "4">>],
   [present |-> TRUE, value |-> <<"2", "0", "2", "4", "-", "0", "6", "-", "0", "1", "x">>],
   [present |-> TRUE, value |-> <<"n", "o", "w">>]}

\* searchParams.get('date') || today: null and '' are falsy
DateOf(param) ==
  IF ~param.present \/ param.value = <<>> THEN Today ELSE param.value

\* GET up to the await of buildScores(date)
ScoresGET(param) ==
  /\ scoresReq.st \in {"idle", "done"}
  /\ scoresReq.served < MaxRequests
  /\ scoresReq' = [scoresReq EXCEPT !.st = "pending", !.param = param,
                                    !.date = DateOf(param), !.status = 0,
                                    !.body = "none", !.result = ReqIdle.result]
  /\ UNCHANGED <<coreVars, retryVars, throttleVars, streamVars, client, poller>>

\* buildScores resolves: NextResponse.json(result)
ScoresResolve(result) ==
  /\ scoresReq.st = "pending"
  /\ scoresReq' = [scoresReq EXCEPT !.st = "done", !.status = 200, !.body = "result",
                                    !.result = result, !.served = @ + 1]
  /\ UNCHANGED <<coreVars, retryVars, throttleVars, streamVars, client, poller>>

\* buildScores rejects: { error: 'Failed to fetch scores' }, status 500
ScoresReject ==
  /\ scoresReq.st = "pending"
  /\ scoresReq' = [scoresReq EXCEPT !.st = "done", !.status = 500, !.body = "error",
                                    !.served = @ + 1]
  /\ UNCHANGED <<coreVars, retryVars, throttleVars, streamVars, client, poller>>

ScoresRouteNext ==
  \/ \E param \in DateParams : ScoresGET(param)
  \/ \E result \in StreamResults : ScoresResolve(result)
  \/ ScoresReject

ScoresRouteSpec == Init /\ [][ScoresRouteNext]_vars

(* ------------------------------------------------------------------ *)
(* C24                                                                 *)
(* ------------------------------------------------------------------ *)
Digits == {"0", "1", "2", "3", "4", "5", "6", "7", "8", "9"}

\* four digits, a dash, two digits, a dash, two digits
WellFormedDate(d) ==
  /\ Len(d) = 10
  /\ \A i \in 1..10 : IF i \in {5, 8} THEN d[i] = "-" ELSE d[i] \in Digits

\* C24: GET /api/scores answers 400 when the date parameter is present and
\* is not a well-formed YYYY-MM-DD date, and 200 with the aggregation result
\* when it is well-formed.
C24_MalformedDateIs400 ==
  (scoresReq.st = "done" /\ scoresReq.param.present) =>
    IF WellFormedDate(scoresReq.param.value)
      THEN scoresReq.status = 200 /\ scoresReq.body = "result"
      ELSE scoresReq.status = 400

(* ------------------------------------------------------------------ *)
(* C25                                                                 *)
(* ------------------------------------------------------------------ *)
\* C25: on a connection no timer is armed while the initial load or a tick
\* is executing, and a timer is armed only by the step that completes the
\* initial load or a tick, after the message of that load or tick was sent.
C25_TicksNeverOverlap ==
  /\ [](~(conn.timer /\ conn.st \in {"loading", "ticking"}))
  /\ [][(~conn.timer /\ conn'.timer) =>
          /\ conn.st \in {"loading", "ticking"}
          /\ conn'.st = "waiting"
          /\ conn'.builds = conn.builds
          /\ Len(conn'.out) = Len(conn.out) + 1]_vars

\* the second tick has completed and armed the timer of a third
C25_Witness ==
  /\ conn.st = "waiting"
  /\ conn.timer
  /\ conn.ticks = 2
  /\ Len(conn.out) = 3

(* ------------------------------------------------------------------ *)
(* C26                                                                 *)
(* ------------------------------------------------------------------ *)
\* the score, status, inning, inning half and outs of a game
Volatile(g) ==
  [homeScore |-> g.homeScore, awayScore |-> g.awayScore, status |-> g.status,
   currentInning |-> g.currentInning, inningHalf |-> g.inningHalf, outs |-> g.outs]

\* the games of the update sent by the step, none if it sent a ping
UpdatedByTick ==
  IF LastOut.event = "update"
    THEN {LastOut.data.games[i] : i \in 1..Len(LastOut.data.games)}
    ELSE {}

\* C26: when the rebuild of a tick resolves, a game that was in the previous
\* result is in the update of the tick if its score, status, inning, inning
\* half or outs changed, and is in no update if none of them changed.
C26_VolatileChangesOnly ==
  [][TickResolved =>
       \A g \in GamesIn(conn'.scores) : \A prev \in GamesIn(conn.scores) :
         prev.id = g.id =>
           (Volatile(g) # Volatile(prev) <=> g \in UpdatedByTick)]_vars

(* ------------------------------------------------------------------ *)
(* ScoresView: handleInit and handleUpdate                             *)
(* ------------------------------------------------------------------ *)
\* the data of ScoresView before the first setData
NoData == [has |-> FALSE, leagues |-> <<>>, hasLive |-> FALSE]

\* handleInit: setData(newData)
handleInit(newData) ==
  [has |-> TRUE, leagues |-> newData.leagues, hasLive |-> newData.hasLive]

RECURSIVE ById(_, _)
\* byId.get(g.id) ?? g, the Map keeping the last entry of a key
ById(changedGames, g) ==
  IF changedGames = <<>> THEN g
  ELSE IF changedGames[Len(changedGames)].id = g.id THEN changedGames[Len(changedGames)]
  ELSE ById(SubSeq(changedGames, 1, Len(changedGames) - 1), g)

\* handleUpdate: the games of prev replaced by id, no game and no league added
handleUpdate(prev, changedGames, hasLive) ==
  IF ~prev.has THEN prev
  ELSE [prev EXCEPT
          !.hasLive = hasLive,
          !.leagues = [i \in 1..Len(prev.leagues) |->
                         [prev.leagues[i] EXCEPT
                            !.games = [j \in 1..Len(prev.leagues[i].games) |->
                                         ById(changedGames, prev.leagues[i].games[j])]]]]

RECURSIVE ClientData(_, _)
\* the data of ScoresView after the messages of out that were delivered,
\* applied in order to data
ClientData(data, out) ==
  IF out = <<>> THEN data
  ELSE LET m == Head(out)
           next == IF ~m.delivered THEN data
                   ELSE IF m.event = "init" THEN handleInit(m.data)
                   ELSE IF m.event = "update" THEN handleUpdate(data, m.data.games, m.data.hasLive)
                   ELSE data
       IN  ClientData(next, Tail(out))

(* ------------------------------------------------------------------ *)
(* C28                                                                 *)
(* ------------------------------------------------------------------ *)
\* C28: on an open connection between two ticks, after the client applied
\* the init and the updates sent so far, every game of the latest result of
\* the server is in the client's data with the same score, status, inning,
\* inning half and outs, and the client's hasLive is the server's.
C28_ClientMatchesServer ==
  (conn.st = "waiting" /\ ~conn.aborted /\ ~conn.closed) =>
    LET data == ClientData(NoData, conn.out)
    IN  /\ data.has
        /\ data.hasLive = conn.scores.hasLive
        /\ \A g \in GamesIn(conn.scores) :
             \E h \in GamesIn(data) : h.id = g.id /\ Volatile(h) = Volatile(g)

(* ------------------------------------------------------------------ *)
(* C27                                                                 *)
(* ------------------------------------------------------------------ *)
\* the result of the last pass for date d shows the last good games of
\* source s, fresh or stale
ShowsLastGood(d, s) ==
  /\ lastDone[d].has
  /\ \E j \in GroupsOf(LastLeagues(d), s) :
       /\ Len(LastLeagues(d)[j].games) > 0
       /\ LastLeagues(d)[j].games \in Responses(s, d)

\* C27: once a source (MLB, NPB, KBO, College Baseball) has returned games
\* for a date, every later pass for the date on which its fetch fails
\* returns its group with stale = true and those last good games, whatever
\* the other sources did: a failing pass that follows a pass showing the
\* last good games, fresh or stale, shows them stale again.
C27_StalePersists ==
  [][Returns =>
       \A s \in ErrorCardSources :
         (ShowsLastGood(pass.date, s) /\ pass.res[s] = Failed)
           => \E i \in GroupsOf(Returned, s) :
                /\ Returned[i].stale
                /\ Returned[i].games \in Responses(s, pass.date)]_vars

====
